---------------------------- MODULE Spec2Model ----------------------------
(***************************************************************************)
(* Model of the channel-web lite view component `Web`                      *)
(* (src/modules/channel-web/src/views/lite/main.tsx): the session          *)
(* bootstrap, the reactive watchers, the inbound/outbound postMessage      *)
(* protocol, the unread counter and the notification sound latch.          *)
(*                                                                         *)
(* JavaScript runs each handler to completion on one thread, so every      *)
(* handler (up to its next await) is one action.  Every action records the *)
(* collaborator calls it made, in order, in `calls`, and what it was in    *)
(* `lastStep`.  JavaScript values are string tokens: "undefined" is the    *)
(* value undefined, "" the empty string, "0" and "360" the numbers 0 and   *)
(* 360; an overrides mapping is a token                                    *)
(* whose override modules are listed by _values.  this.setState is taken   *)
(* to assign this.state at once (the handlers run outside a React batch).  *)
(***************************************************************************)
EXTENDS Integers, Sequences, FiniteSets, TLC

(* ------------------------------ bounds --------------------------------- *)
\* the number of handler runs (steps of the event loop) a behaviour follows
MaxSteps == 6

(* ---------------------------- JavaScript values ------------------------ *)
Undefined == "undefined"

Truthy(v) == v \notin {Undefined, "", "0"}

\* obj[k], undefined for a key the object does not have
Get(obj, k) == IF k \in DOMAIN obj THEN obj[k] ELSE Undefined

\* the object without properties
EmptyObj == [k \in {} |-> Undefined]

\* Object.assign({}, a, b): b's own keys win, a's other keys are kept
ObjectAssign(a, b) ==
  [k \in (DOMAIN a) \cup (DOMAIN b) |-> IF k \in DOMAIN b THEN b[k] ELSE a[k]]

\* constants.DEFAULT_CONFIG
DEFAULT_CONFIG ==
  [userId |-> Undefined, overrides |-> Undefined, locale |-> "browser"]

\* the override mappings of the model, and the modules of their values in
\* insertion order: _values(overrides) followed by override.module
OverrideModules(ov) ==
  CASE ov = "{a:modA}" -> <<"modA">>
    [] ov = "{a:modA,b:modB}" -> <<"modA", "modB">>
    [] OTHER -> <<>>

_values(ov) == OverrideModules(ov)

\* the configuration partials a host page supplies
PartialOf(u, o, x) ==
  LET ku == IF u = "absent" THEN {} ELSE {"userId"}
      ko == IF o = "absent" THEN {} ELSE {"overrides"}
      kx == IF x = "absent" THEN {} ELSE {"extra"}
  IN [k \in ku \cup ko \cup kx |->
        IF k = "userId" THEN u ELSE IF k = "overrides" THEN o ELSE x]

Partials ==
  { PartialOf("absent", "absent", "absent"),
    PartialOf("u1", "absent", "absent"),
    PartialOf("u2", "{a:modA,b:modB}", "absent"),
    PartialOf("absent", "{a:modA}", "x1"),
    [userId |-> "", overrides |-> "{}", locale |-> "fr"] }


\* location.search: no options parameter, an options payload that does not
\* parse, a payload without a config field, or a payload {config: P}
Queries ==
  { [kind |-> "none", config |-> EmptyObj],
    [kind |-> "malformed", config |-> EmptyObj],
    [kind |-> "noconfig", config |-> EmptyObj] }
  \cup { [kind |-> "config", config |-> P] :
           P \in { PartialOf("u1", "{a:modA,b:modB}", "absent"),
                   PartialOf("absent", "{}", "x1") } }

\* the data of the message events the host page posts to the widget window
IframeMessages ==
  { [action |-> "configure", payload |-> P] : P \in Partials }
  \cup { [action |-> "event", payload |-> [type |-> t, text |-> "hello"]] :
           t \in {"show", "hide", "message", "custom"} }
  \cup { [action |-> "event", payload |-> [text |-> "hello"]],
         [action |-> "ping", payload |-> EmptyObj] }

\* the events the socket delivers to onMessage; hasPayload says whether
\* event.payload is set, payloadType is event.payload.type
SocketEvents ==
  { [hasPayload |-> TRUE, payloadType |-> "visit", message_type |-> "text"],
    [hasPayload |-> TRUE, payloadType |-> "text", message_type |-> "text"],
    [hasPayload |-> FALSE, payloadType |-> Undefined, message_type |-> "visit"],
    [hasPayload |-> FALSE, payloadType |-> Undefined, message_type |-> "text"] }

\* the values of store.view.dimensions.container (0 is falsy)
ContainerValues == {"0", "360", "480"}

(* ------------------------------- state --------------------------------- *)
VARIABLES
  life,         \* "constructed", "mounted" or "unmounted"
  listener,     \* handleIframeApi is registered for the window's message events
  hasParent,    \* window.parent is truthy
  hasFocusApi,  \* document.hasFocus exists
  focused,      \* document.hasFocus()
  query,        \* location.search
  pc,           \* where initialize() is
  socket,       \* this.socket: what initialize() has done to it
  userConfig,   \* the const config of initialize()
  bootLog,      \* the calls and resumptions of initialize() so far, in order
  config,       \* store.config
  observers,    \* the fields watched by setupObserver's observe calls
  tasks,        \* the userId watcher callbacks in flight: the await each is at
  container,    \* store.view.dimensions.container
  activeView,   \* store.view.activeView
  isReady,      \* store.view.isReady
  unread,       \* store.view.unreadCount
  played,       \* this.state.played
  timers,       \* pending setTimeout callbacks of playSound
  parentClass,  \* this.parentClass
  lastSetClass, \* the value of the last setClass message posted to the host
  lastStep,     \* the handler that ran last, with its argument
  calls,        \* the collaborator calls that handler made, in order
  prevUserId,   \* config.userId as that handler found it
  steps         \* the number of handler runs so far

vars == <<life, listener, hasParent, hasFocusApi, focused, query, pc, socket,
          userConfig, bootLog, config, observers, tasks, container, activeView,
          isReady, unread, played, timers, parentClass, lastSetClass,
          lastStep, calls, prevUserId, steps>>

\* the argument list of a call without arguments, and a single token as one
NoArg == EmptyObj

Val(v) == [val |-> v]

\* a call of a collaborator: its name and its argument
Call(fn, arg) == [fn |-> fn, arg |-> arg]

Step(op, arg) == [op |-> op, arg |-> arg]

NoSocket ==
  [created |-> FALSE, onMessage |-> FALSE, onTyping |-> FALSE,
   onUserIdChanged |-> FALSE, setup |-> FALSE]

Init ==
  /\ life = "constructed"
  /\ listener = FALSE
  /\ hasParent \in BOOLEAN
  /\ hasFocusApi \in BOOLEAN
  /\ focused = FALSE
  /\ query \in Queries
  /\ pc = "notStarted"
  /\ socket = NoSocket
  /\ userConfig = EmptyObj
  /\ bootLog = <<>>
  /\ config = EmptyObj
  /\ observers = {}
  /\ tasks = <<>>
  /\ container = "0"
  /\ activeView = "widget"
  /\ isReady = FALSE
  /\ unread = 0
  /\ played = FALSE
  /\ timers = 0
  /\ parentClass = Undefined
  /\ lastSetClass = Undefined
  /\ lastStep = Step("constructor", NoArg)
  /\ calls = <<>>
  /\ prevUserId = Undefined
  /\ steps = 0

\* one more handler runs, and finds the config.userId of the state it starts in
tick ==
  /\ steps < MaxSteps
  /\ steps' = steps + 1
  /\ prevUserId' = Get(config, "userId")


(* ------------------------- store collaborators ------------------------- *)
\* store.updateConfig: the configuration is replaced
updateConfig(newConfig) == newConfig

\* store.view.showChat / hideChat: the panel or the launcher is the active view
showChat == "side"

hideChat == "widget"

\* store.view.incrementUnread / resetUnread
incrementUnread(n) == n + 1

resetUnread(n) == 0

(* ------------------------------ bootstrap ------------------------------ *)
\* JSON.parse(decodeURIComponent(options || '{}')).config; the caller has
\* excluded the payload that does not parse
parsedConfig(q) == IF q.kind = "config" THEN q.config ELSE EmptyObj

\* an extractConfig that falls back to the defaults when the payload does
\* not parse
extractConfigThrows_never(q) == FALSE

\* line 64: JSON.parse raises on a payload that does not parse, and nothing
\* catches it
extractConfigThrows(q) == q.kind = "malformed"

\* extractConfig: the configuration it builds and hands to updateConfig
extractConfig(q) == ObjectAssign(DEFAULT_CONFIG, parsedConfig(q))

\* loadOverrides: one loadModuleView(override.module, true) per override
loadOverrides(overrides) ==
  [i \in 1..Len(_values(overrides)) |->
     Call("loadModuleView", [module |-> _values(overrides)[i], force |-> TRUE])]

\* line 51: config.overrides && this.loadOverrides(config.overrides)
initializeLoadsOverrides(cfg) == Truthy(Get(cfg, "overrides"))

\* line 52: config.userId && this.socket.changeUserId(config.userId)
initializeChangesUserId(cfg) == Truthy(Get(cfg, "userId"))

\* the names of the calls of a sequence of calls
Names(cs) == [i \in DOMAIN cs |-> cs[i].fn]

\* initialize, lines 44-48: the socket, its three hooks, setup()
socketCalls ==
  <<Call("BpSocket", Val("bp")), Call("socket.onMessage", Val("handleNewMessage")),
    Call("socket.onTyping", Val("updateTyping")),
    Call("socket.onUserIdChanged", Val("setUserId")), Call("socket.setup", NoArg)>>

\* initialize, lines 50-54, for the configuration extractConfig builds
configCalls(cfg) ==
  <<Call("updateConfig", cfg)>>
  \o (IF initializeLoadsOverrides(cfg)
        THEN loadOverrides(Get(cfg, "overrides")) ELSE <<>>)
  \o (IF initializeChangesUserId(cfg)
        THEN <<Call("changeUserId", Val(Get(cfg, "userId")))>> ELSE <<>>)
  \o <<Call("waitForUserId", NoArg)>>

\* a bootstrap that completes the loading before it installs the watchers
finalCalls_readyFirst ==
  <<Call("setLoadingCompleted", NoArg), Call("observe", Val("userId")),
    Call("observe", Val("overrides")), Call("observe", Val("container"))>>

\* initialize, lines 57-59: setupObserver's three observe calls, then
\* setLoadingCompleted
finalCalls ==
  <<Call("observe", Val("userId")), Call("observe", Val("overrides")),
    Call("observe", Val("container")), Call("setLoadingCompleted", NoArg)>>

\* componentDidMount: the listener is registered and initialize() runs up to
\* its first await, or up to the parse error of extractConfig
componentDidMount ==
  /\ life = "constructed"
  /\ life' = "mounted"
  /\ listener' = TRUE
  /\ socket' = [created |-> TRUE, onMessage |-> TRUE, onTyping |-> TRUE,
                onUserIdChanged |-> TRUE, setup |-> TRUE]
  /\ lastStep' = Step("initialize", Val(query.kind))
  /\ tick
  /\ IF extractConfigThrows(query)
       THEN /\ pc' = "threw"
            /\ calls' = socketCalls
            /\ UNCHANGED <<userConfig, config>>
       ELSE /\ pc' = "waitForUserId"
            /\ userConfig' = extractConfig(query)
            /\ config' = updateConfig(userConfig')
            /\ calls' = socketCalls \o configCalls(userConfig')
  /\ bootLog' = Names(calls')
  /\ UNCHANGED <<hasParent, hasFocusApi, focused, query, observers, tasks,
                 container, activeView, isReady, unread, played, timers,
                 parentClass, lastSetClass>>

\* an initialize() that does not await initializeChat
resolveWaitForUserId_noAwait ==
  /\ pc = "waitForUserId"
  /\ pc' = "done"
  /\ observers' = {"userId", "overrides", "container"}
  /\ isReady' = TRUE
  /\ lastStep' = Step("initialize", Val("waitForUserId"))
  /\ tick
  /\ calls' = <<Call("initializeChat", Val("initialize"))>> \o finalCalls
  /\ bootLog' = bootLog \o <<"waitForUserId.resolved">> \o Names(calls')
  /\ UNCHANGED <<life, listener, hasParent, hasFocusApi, focused, query, socket,
                 userConfig, config, tasks, container, activeView, unread,
                 played, timers, parentClass, lastSetClass>>

\* socket.waitForUserId() resolves: initialize() calls initializeChat
resolveWaitForUserId ==
  /\ pc = "waitForUserId"
  /\ pc' = "initializeChat"
  /\ lastStep' = Step("initialize", Val("waitForUserId"))
  /\ tick
  /\ calls' = <<Call("initializeChat", Val("initialize"))>>
  /\ bootLog' = bootLog \o <<"waitForUserId.resolved">> \o Names(calls')
  /\ UNCHANGED <<life, listener, hasParent, hasFocusApi, focused, query, socket,
                 userConfig, config, observers, tasks, container, activeView,
                 isReady, unread, played, timers, parentClass, lastSetClass>>

\* setupObserver: the three observe calls
setupObserver == {"userId", "overrides", "container"}

\* a continuation that gives up when the component has been unmounted
resolveInitializeChat_ifMounted ==
  /\ pc = "initializeChat"
  /\ pc' = "done"
  /\ observers' = IF life = "mounted" THEN {"userId", "overrides", "container"} ELSE observers
  /\ isReady' = (life = "mounted")
  /\ lastStep' = Step("initialize", Val("initializeChat"))
  /\ tick
  /\ calls' = IF life = "mounted" THEN finalCalls ELSE <<>>
  /\ bootLog' = bootLog \o <<"initializeChat.resolved">> \o Names(calls')
  /\ UNCHANGED <<life, listener, hasParent, hasFocusApi, focused, query, socket,
                 userConfig, config, tasks, container, activeView, unread,
                 played, timers, parentClass, lastSetClass>>

\* initializeChat() resolves: the watchers are installed, then loading is
\* completed
resolveInitializeChat ==
  /\ pc = "initializeChat"
  /\ pc' = "done"
  /\ observers' = setupObserver
  /\ isReady' = TRUE
  /\ lastStep' = Step("initialize", Val("initializeChat"))
  /\ tick
  /\ calls' = finalCalls
  /\ bootLog' = bootLog \o <<"initializeChat.resolved">> \o Names(calls')
  /\ UNCHANGED <<life, listener, hasParent, hasFocusApi, focused, query, socket,
                 userConfig, config, tasks, container, activeView, unread,
                 played, timers, parentClass, lastSetClass>>

\* an awaited promise of initialize() rejects: the rejection is not caught
\* and initialize() ends there
rejectInitialize ==
  /\ pc \in {"waitForUserId", "initializeChat"}
  /\ pc' = "threw"
  /\ lastStep' = Step("initialize", Val("rejected"))
  /\ tick
  /\ calls' = <<>>
  /\ UNCHANGED <<life, listener, hasParent, hasFocusApi, focused, query, socket,
                 userConfig, bootLog, config, observers, tasks, container,
                 activeView, isReady, unread, played, timers, parentClass, lastSetClass>>

\* an unmount that leaves the message listener registered
componentWillUnmount_keepsListener ==
  /\ life = "mounted"
  /\ life' = "unmounted"
  /\ lastStep' = Step("componentWillUnmount", NoArg)
  /\ tick
  /\ calls' = <<>>
  /\ UNCHANGED <<listener, hasParent, hasFocusApi, focused, query, pc, socket,
                 userConfig, bootLog, config, observers, tasks, container,
                 activeView, isReady, unread, played, timers, parentClass,
                 lastSetClass>>

\* componentWillUnmount: only the message listener is removed
componentWillUnmount ==
  /\ life = "mounted"
  /\ life' = "unmounted"
  /\ listener' = FALSE
  /\ lastStep' = Step("componentWillUnmount", NoArg)
  /\ tick
  /\ calls' = <<>>
  /\ UNCHANGED <<hasParent, hasFocusApi, focused, query, pc, socket, userConfig,
                 bootLog, config, observers, tasks, container, activeView,
                 isReady, unread, played, timers, parentClass, lastSetClass>>


(* ------------------------------ watchers ------------------------------- *)
\* observe(object, field, callback): the callback runs, inside the store
\* action that assigns the field, when the field is watched and its value
\* changes
notifies(field, oldValue, newValue) ==
  field \in observers /\ oldValue # newValue

\* a userId watcher without its guard on oldValue
userIdWatcherGoesOn_always(oldValue) == TRUE

\* userId watcher, lines 81-83: the callback goes on unless oldValue is falsy
userIdWatcherGoesOn(oldValue) == Truthy(oldValue)

\* an overrides watcher that does not look for the host frame
overridesWatcherLoads_noParent(newValue) == Truthy(newValue)

\* overrides watcher, line 90
overridesWatcherLoads(newValue) == Truthy(newValue) /\ hasParent

\* a container watcher that posts falsy values too
containerWatcherPosts_anyValue(newValue) == hasParent

\* container watcher, line 96
containerWatcherPosts(newValue) == Truthy(newValue) /\ hasParent

\* a userId watcher that does not await changeUserId before initializeChat
userIdWatcherCalls_noAwait(oldValue, newValue) ==
  IF notifies("userId", oldValue, newValue) /\ userIdWatcherGoesOn(oldValue)
    THEN <<Call("changeUserId", Val(newValue)),
           Call("initializeChat", Val("userIdWatcher"))>>
    ELSE <<>>

\* the userId watcher's callback up to its first await (line 85)
userIdWatcherCalls(oldValue, newValue) ==
  IF notifies("userId", oldValue, newValue) /\ userIdWatcherGoesOn(oldValue)
    THEN <<Call("changeUserId", Val(newValue))>>
    ELSE <<>>

\* the callbacks that callback leaves suspended at `await changeUserId`
userIdWatcherTasks(oldValue, newValue) ==
  IF notifies("userId", oldValue, newValue) /\ userIdWatcherGoesOn(oldValue)
    THEN <<"changeUserId">>
    ELSE <<>>

\* the overrides watcher's callback (lines 89-93)
overridesWatcherCalls(oldValue, newValue) ==
  IF notifies("overrides", oldValue, newValue) /\ overridesWatcherLoads(newValue)
    THEN loadOverrides(newValue)
    ELSE <<>>

\* the container watcher's callback (lines 95-99)
containerWatcherCalls(oldValue, newValue) ==
  IF notifies("container", oldValue, newValue) /\ containerWatcherPosts(newValue)
    THEN <<Call("postMessage", [type |-> "setWidth", value |-> newValue])>>
    ELSE <<>>

\* the watcher callbacks a replacement of store.config by newConfig runs
configWatcherCalls(newConfig) ==
  userIdWatcherCalls(Get(config, "userId"), Get(newConfig, "userId"))
  \o overridesWatcherCalls(Get(config, "overrides"), Get(newConfig, "overrides"))

(* -------------------------- inbound messages --------------------------- *)
\* a 'configure' that merges the payload over the configuration in force
configureConfig_overCurrent(payload) ==
  ObjectAssign(ObjectAssign(DEFAULT_CONFIG, config), payload)

\* handleIframeApi, line 104: the configuration a 'configure' message sets
configureConfig(payload) == ObjectAssign(DEFAULT_CONFIG, payload)

\* a handler without its branch for type 'message'
handleIframeApiCalls_noMessageBranch(m) ==
  IF m.action = "configure"
    THEN <<Call("updateConfig", configureConfig(m.payload))>>
  ELSE IF m.action = "event"
    THEN IF Get(m.payload, "type") = "show" THEN <<Call("showChat", NoArg)>>
         ELSE IF Get(m.payload, "type") = "hide" THEN <<Call("hideChat", NoArg)>>
         ELSE <<Call("sendData", [type |-> Get(m.payload, "type"),
                                  payload |-> m.payload])>>
  ELSE <<>>

\* handleIframeApi: the store action the message triggers, if any
handleIframeApiCalls(m) ==
  IF m.action = "configure"
    THEN <<Call("updateConfig", configureConfig(m.payload))>>
  ELSE IF m.action = "event"
    THEN IF Get(m.payload, "type") = "show" THEN <<Call("showChat", NoArg)>>
         ELSE IF Get(m.payload, "type") = "hide" THEN <<Call("hideChat", NoArg)>>
         ELSE IF Get(m.payload, "type") = "message"
           THEN <<Call("sendMessage", Val(Get(m.payload, "text")))>>
         ELSE <<Call("sendData", [type |-> Get(m.payload, "type"),
                                  payload |-> m.payload])>>
  ELSE <<>>

\* the active view after the message
handleIframeApiView(m) ==
  IF m.action = "event" /\ Get(m.payload, "type") = "show" THEN showChat
  ELSE IF m.action = "event" /\ Get(m.payload, "type") = "hide" THEN hideChat
  ELSE activeView

\* the window receives a message event from the host page
handleIframeApi(m) ==
  /\ listener
  /\ lastStep' = Step("handleIframeApi", m)
  /\ tick
  /\ IF m.action = "configure"
       THEN /\ config' = updateConfig(configureConfig(m.payload))
            /\ tasks' = tasks \o userIdWatcherTasks(Get(config, "userId"),
                                                    Get(config', "userId"))
            /\ calls' = handleIframeApiCalls(m) \o configWatcherCalls(config')
       ELSE /\ calls' = handleIframeApiCalls(m)
            /\ UNCHANGED <<config, tasks>>
  /\ activeView' = handleIframeApiView(m)
  /\ UNCHANGED <<life, listener, hasParent, hasFocusApi, focused, query, pc,
                 socket, userConfig, bootLog, observers, container, isReady,
                 unread, played, timers, parentClass, lastSetClass>>

\* a userId watcher callback's changeUserId resolves: it calls initializeChat
watcherChangeUserIdResolves(i) ==
  /\ i \in 1..Len(tasks)
  /\ tasks[i] = "changeUserId"
  /\ tasks' = [tasks EXCEPT ![i] = "initializeChat"]
  /\ lastStep' = Step("userIdWatcher", [task |-> i])
  /\ tick
  /\ calls' = <<Call("initializeChat", Val("userIdWatcher"))>>
  /\ UNCHANGED <<life, listener, hasParent, hasFocusApi, focused, query, pc,
                 socket, userConfig, bootLog, config, observers, container,
                 activeView, isReady, unread, played, timers, parentClass, lastSetClass>>

\* a userId watcher callback's initializeChat settles, or its changeUserId
\* rejects: the callback ends
watcherCallbackEnds(i) ==
  /\ i \in 1..Len(tasks)
  /\ tasks' = [j \in 1..(Len(tasks) - 1) |-> IF j < i THEN tasks[j] ELSE tasks[j + 1]]
  /\ lastStep' = Step("userIdWatcherEnd", [task |-> i])
  /\ tick
  /\ calls' = <<>>
  /\ UNCHANGED <<life, listener, hasParent, hasFocusApi, focused, query, pc,
                 socket, userConfig, bootLog, config, observers, container,
                 activeView, isReady, unread, played, timers, parentClass, lastSetClass>>

\* the store changes dimensions.container
setContainer(v) ==
  /\ life # "constructed"
  /\ v # container
  /\ container' = v
  /\ lastStep' = Step("setContainer", Val(v))
  /\ tick
  /\ calls' = containerWatcherCalls(container, v)
  /\ UNCHANGED <<life, listener, hasParent, hasFocusApi, focused, query, pc,
                 socket, userConfig, bootLog, config, observers, tasks,
                 activeView, isReady, unread, played, timers, parentClass, lastSetClass>>


(* --------------------------- socket messages --------------------------- *)
\* a visit test that looks at the payload only
isVisit_payloadOnly(event) == event.hasPayload /\ event.payloadType = "visit"

\* handleNewMessage, line 121: the system message that is dropped
isVisit(event) ==
  (event.hasPayload /\ event.payloadType = "visit") \/ event.message_type = "visit"

\* line 129: there is no focus on the conversation
noFocusOnConversation ==
  (hasFocusApi /\ ~focused) \/ activeView # "side"

\* a handleResetUnreadCount that looks at the active view only
resetsUnread_viewOnly ==
  activeView = "side"

\* handleResetUnreadCount, line 153
resetsUnread ==
  hasFocusApi /\ focused /\ activeView = "side"

\* a playSound that does not look at the latch
playsSound_always == TRUE

\* playSound, lines 138-140: the latch lets the sound play
playsSound == ~played

\* playSound: audio.play() unless the latch is set
playSoundCalls == IF playsSound THEN <<Call("audio.play", NoArg)>> ELSE <<>>

\* handleResetUnreadCount
handleResetUnreadCountCalls ==
  IF resetsUnread THEN <<Call("resetUnread", NoArg)>> ELSE <<>>

\* the unread count after handleNewMessage has handled a message that is
\* not a visit
unreadAfterMessage ==
  LET incremented == IF noFocusOnConversation THEN incrementUnread(unread) ELSE unread
  IN IF resetsUnread THEN resetUnread(incremented) ELSE incremented

\* the socket delivers an event to onMessage
handleNewMessage(event) ==
  /\ socket.onMessage
  /\ lastStep' = Step("handleNewMessage", event)
  /\ tick
  /\ IF isVisit(event)
       THEN /\ calls' = <<>>
            /\ UNCHANGED <<unread, played, timers>>
       ELSE /\ calls' = <<Call("addEventToConversation", event)>>
                        \o (IF noFocusOnConversation
                              THEN playSoundCalls \o <<Call("incrementUnread", NoArg)>>
                              ELSE <<>>)
                        \o handleResetUnreadCountCalls
            /\ unread' = unreadAfterMessage
            /\ played' = (played \/ noFocusOnConversation)
            /\ timers' = IF noFocusOnConversation /\ playsSound
                           THEN timers + 1 ELSE timers
  /\ UNCHANGED <<life, listener, hasParent, hasFocusApi, focused, query, pc,
                 socket, userConfig, bootLog, config, observers, tasks,
                 container, activeView, isReady, parentClass, lastSetClass>>

\* a timeout callback that leaves the latch set
soundTimeout_keepsLatch ==
  /\ timers > 0
  /\ timers' = timers - 1
  /\ lastStep' = Step("soundTimeout", NoArg)
  /\ steps' = steps + 1
  /\ prevUserId' = Get(config, "userId")
  /\ calls' = <<>>
  /\ UNCHANGED <<life, listener, hasParent, hasFocusApi, focused, query, pc,
                 socket, userConfig, bootLog, config, observers, tasks,
                 container, activeView, isReady, unread, played, parentClass,
                 lastSetClass>>

\* the timeout set by playSound elapses (MIN_TIME_BETWEEN_SOUNDS); a pending
\* timeout elapses however many handlers have run, so this step is the one
\* that MaxSteps does not hold back
soundTimeout ==
  /\ timers > 0
  /\ timers' = timers - 1
  /\ played' = FALSE
  /\ lastStep' = Step("soundTimeout", NoArg)
  /\ steps' = steps + 1
  /\ prevUserId' = Get(config, "userId")
  /\ calls' = <<>>
  /\ UNCHANGED <<life, listener, hasParent, hasFocusApi, focused, query, pc,
                 socket, userConfig, bootLog, config, observers, tasks,
                 container, activeView, isReady, unread, parentClass, lastSetClass>>

\* the document gains or loses the focus
focusChanges ==
  /\ hasFocusApi
  /\ focused' = ~focused
  /\ lastStep' = Step("focusChanges", NoArg)
  /\ tick
  /\ calls' = <<>>
  /\ UNCHANGED <<life, listener, hasParent, hasFocusApi, query, pc, socket,
                 userConfig, bootLog, config, observers, tasks, container,
                 activeView, isReady, unread, played, timers, parentClass, lastSetClass>>

\* onFocus of the rendered div (line 199): handleResetUnreadCount
handleResetUnreadCount ==
  /\ life = "mounted"
  /\ isReady
  /\ lastStep' = Step("handleResetUnreadCount", NoArg)
  /\ tick
  /\ calls' = handleResetUnreadCountCalls
  /\ unread' = IF resetsUnread THEN resetUnread(unread) ELSE unread
  /\ UNCHANGED <<life, listener, hasParent, hasFocusApi, focused, query, pc,
                 socket, userConfig, bootLog, config, observers, tasks,
                 container, activeView, isReady, played, timers, parentClass, lastSetClass>>

\* onClick of the launcher button (line 168): showChat
widgetClick ==
  /\ life = "mounted"
  /\ isReady
  /\ activeView # "side"
  /\ activeView' = showChat
  /\ lastStep' = Step("widgetClick", NoArg)
  /\ tick
  /\ calls' = <<Call("showChat", NoArg)>>
  /\ UNCHANGED <<life, listener, hasParent, hasFocusApi, focused, query, pc,
                 socket, userConfig, bootLog, config, observers, tasks,
                 container, isReady, unread, played, timers, parentClass, lastSetClass>>

(* ------------------------------- render -------------------------------- *)
\* line 190: the class computed from the active view
computedClass(view) ==
  IF view = "side" THEN "bp-widget-web bp-widget-side"
                   ELSE "bp-widget-web bp-widget-widget"

\* a render pass that does not compare the class with the remembered one
classChanged_always == TRUE

\* line 191: the class differs from the remembered one
classChanged == parentClass # computedClass(activeView)

\* a render pass that posts the class before the component is ready
renderCalls_notReady ==
  IF classChanged /\ hasParent
    THEN <<Call("postMessage", [type |-> "setClass", value |-> computedClass(activeView)])>>
    ELSE <<>>

\* line 192: window.parent && window.parent.postMessage(setClass)
renderCalls ==
  IF isReady /\ classChanged /\ hasParent
    THEN <<Call("postMessage", [type |-> "setClass", value |-> computedClass(activeView)])>>
    ELSE <<>>

\* a render pass
render ==
  /\ life = "mounted"
  /\ lastStep' = Step("render", [isReady |-> isReady])
  /\ tick
  /\ calls' = renderCalls
  /\ parentClass' = IF isReady /\ classChanged
                      THEN computedClass(activeView) ELSE parentClass
  /\ lastSetClass' = IF renderCalls # <<>>
                       THEN computedClass(activeView) ELSE lastSetClass
  /\ UNCHANGED <<life, listener, hasParent, hasFocusApi, focused, query, pc,
                 socket, userConfig, bootLog, config, observers, tasks,
                 container, activeView, isReady, unread, played, timers>>

(* ---------------------------- specification ---------------------------- *)
Next ==
  \/ componentDidMount
  \/ resolveWaitForUserId
  \/ resolveInitializeChat
  \/ rejectInitialize
  \/ componentWillUnmount
  \/ \E m \in IframeMessages : handleIframeApi(m)
  \/ \E i \in 1..Len(tasks) : watcherChangeUserIdResolves(i)
  \/ \E i \in 1..Len(tasks) : watcherCallbackEnds(i)
  \/ \E v \in ContainerValues : setContainer(v)
  \/ \E event \in SocketEvents : handleNewMessage(event)
  \/ soundTimeout
  \/ focusChanges
  \/ handleResetUnreadCount
  \/ widgetClick
  \/ render

Spec == Init /\ [][Next]_vars

\* the browser runs the callback of every pending timeout once its delay has
\* elapsed
FairSpec == Spec /\ WF_vars(soundTimeout)


(* ------------------------------ properties ----------------------------- *)
Range(seq) == { seq[i] : i \in DOMAIN seq }

\* the calls of fn the last handler made
CallsOf(fn) == { i \in DOMAIN calls : calls[i].fn = fn }

\* the last step was a run of handler op (a stuttering step is none)
Ran(op) == lastStep'.op = op /\ steps' # steps

\* the first position of a step in the bootstrap log, 0 if it has not happened
Pos(step) ==
  IF step \in Range(bootLog)
    THEN CHOOSE i \in DOMAIN bootLog :
           bootLog[i] = step /\ \A j \in 1..(i - 1) : bootLog[j] # step
    ELSE 0

\* the bootstrap steps of the contract, by number; loading the overrides
\* belongs to applying the configuration
StepNumber(step) ==
  CASE step \in {"BpSocket", "socket.onMessage", "socket.onTyping",
                 "socket.onUserIdChanged", "socket.setup"} -> 1
    [] step \in {"updateConfig", "loadModuleView"} -> 2
    [] step = "changeUserId" -> 3
    [] step \in {"waitForUserId", "waitForUserId.resolved"} -> 4
    [] step \in {"initializeChat", "initializeChat.resolved"} -> 5
    [] step = "observe" -> 6
    [] step = "setLoadingCompleted" -> 7

\* C1: initialize() performs the bootstrap steps once each and in the order
\* socket (created, hooks, setup), configuration applied, changeUserId
\* (exactly when the resolved configuration has a userId), waitForUserId
\* resolved, initializeChat resolved, three watchers installed,
\* setLoadingCompleted; no later step is ever logged before an earlier one,
\* no step is repeated, and a finished bootstrap has done all of them.
C1_BootstrapInOrder ==
  /\ \A i, j \in DOMAIN bootLog :
       i < j => /\ StepNumber(bootLog[i]) <= StepNumber(bootLog[j])
                /\ bootLog[i] \notin {"loadModuleView", "observe"}
                     => bootLog[i] # bootLog[j]
  /\ Cardinality({i \in DOMAIN bootLog : bootLog[i] = "observe"}) \in {0, 3}
  /\ Pos("BpSocket") <= Pos("socket.setup")
  /\ \A hook \in {"socket.onMessage", "socket.onTyping", "socket.onUserIdChanged"} :
       Pos("socket.setup") > 0 => Pos("BpSocket") < Pos(hook) /\ Pos(hook) < Pos("socket.setup")
  /\ Pos("changeUserId") > 0 => Truthy(Get(userConfig, "userId"))
  /\ (Pos("waitForUserId") > 0 /\ Truthy(Get(userConfig, "userId")))
       => Pos("changeUserId") > 0
  /\ Pos("waitForUserId") > 0 => Pos("updateConfig") > 0
  /\ Pos("initializeChat.resolved") > 0 => Pos("waitForUserId.resolved") > 0
  /\ (Pos("socket.setup") > 0) = socket.setup
  /\ (Pos("observe") > 0) = (observers # {})
  /\ (Pos("setLoadingCompleted") > 0) = isReady
  /\ pc = "done" =>
       \A n \in {1, 2, 4, 5, 6, 7} : \E i \in DOMAIN bootLog : StepNumber(bootLog[i]) = n
  /\ life = "constructed" => bootLog = <<>>

\* a bootstrap that has run to its end and has requested the user id
C1_Witness ==
  pc = "done" /\ Pos("changeUserId") > 0 /\ Pos("setLoadingCompleted") = Len(bootLog)

\* C2 as stated: whenever loadModuleView is called, the overrides value is
\* truthy and a host frame is present.
C2_LoadsOnlyWithParent ==
  CallsOf("loadModuleView") # {} =>
    Truthy(Get(config, "overrides")) /\ hasParent

\* C2 amended: whenever loadModuleView is called, the call comes from
\* initialize() or from the overrides watcher of a 'configure' message, the
\* overrides value is truthy and there is one call per override; on the
\* watcher's path a host frame is present, on the bootstrap path it need
\* not be.
C2_LoadsOnlyTruthyOverrides ==
  CallsOf("loadModuleView") # {} =>
    /\ lastStep.op \in {"initialize", "handleIframeApi"}
    /\ Truthy(Get(config, "overrides"))
    /\ Cardinality(CallsOf("loadModuleView")) = Len(OverrideModules(Get(config, "overrides")))
    /\ lastStep.op = "handleIframeApi" => hasParent /\ "overrides" \in observers

\* the overrides watcher has loaded two modules into a host frame
C2_Witness ==
  /\ lastStep.op = "handleIframeApi"
  /\ hasParent
  /\ Cardinality(CallsOf("loadModuleView")) = 2

\* the userId watcher's callback starts in this step
WatcherFires ==
  /\ tasks' = tasks \o <<"changeUserId">>
  /\ \E i \in DOMAIN calls' :
       calls'[i].fn = "changeUserId" /\ calls'[i].arg = Val(Get(config', "userId"))

\* no userId watcher callback starts in this step
WatcherSilent ==
  /\ Len(tasks') <= Len(tasks)
  /\ lastStep'.op # "initialize" => \A i \in DOMAIN calls' : calls'[i].fn # "changeUserId"

\* C3 as stated: at any point of the component's life, a step that changes
\* config.userId from a falsy value starts no watcher callback, and one that
\* changes it from a truthy value starts one: changeUserId(newValue) is
\* requested and the callback waits for it.
C3_FiresAtAnyPoint ==
  prevUserId # Get(config, "userId") =>
    IF Truthy(prevUserId)
      THEN /\ \E i \in CallsOf("changeUserId") : calls[i].arg = Val(Get(config, "userId"))
           /\ tasks # <<>>
           /\ tasks[Len(tasks)] = "changeUserId"
      ELSE lastStep.op # "initialize" => CallsOf("changeUserId") = {}

\* C3 amended: a change of config.userId starts the userId watcher's callback
\* (changeUserId(newValue), then initializeChat) exactly when the previous
\* value is truthy and the watcher is installed, which it is only once
\* initialize() has got past its two awaits; a change from a falsy value, or
\* one made while the bootstrap is suspended, starts nothing.
C3_FiresOnceInstalled ==
  [][Get(config', "userId") # Get(config, "userId") =>
       IF Truthy(Get(config, "userId")) /\ pc = "done"
         THEN WatcherFires ELSE WatcherSilent]_vars

\* a 'configure' message has changed a truthy userId under the installed
\* watcher, whose callback is in flight
C3_Witness ==
  /\ lastStep.op = "handleIframeApi"
  /\ pc = "done"
  /\ tasks = <<"changeUserId">>
  /\ \E i \in DOMAIN calls : calls[i].fn = "changeUserId" /\ calls[i].arg = Val("u2")


\* the calls of fn made by the step being taken
CallsOfNext(fn) == { i \in DOMAIN calls' : calls'[i].fn = fn }

\* the step being taken is handleNewMessage handling an event that is not a
\* visit
HandlesMessage ==
  Ran("handleNewMessage") /\ ~(lastStep'.arg.message_type = "visit")
    /\ ~(lastStep'.arg.hasPayload /\ lastStep'.arg.payloadType = "visit")

\* C4: while the document is not focused (document.hasFocus() is false),
\* handling a non-visit message adds the event to the conversation and
\* increments the unread count exactly once, without resetting it, and plays
\* the sound exactly when the latch `played` is false, setting the latch: a
\* message that arrives while the latch is set plays nothing, so one sound at
\* most is played until the timeout resets the latch.
C4_UnreadOnceSoundOncePerWindow ==
  [][(HandlesMessage /\ hasFocusApi /\ ~focused) =>
       /\ unread' = unread + 1
       /\ Cardinality(CallsOfNext("incrementUnread")) = 1
       /\ CallsOfNext("resetUnread") = {}
       /\ Cardinality(CallsOfNext("addEventToConversation")) = 1
       /\ Cardinality(CallsOfNext("audio.play")) = (IF played THEN 0 ELSE 1)
       /\ played'
       /\ timers' = (IF played THEN timers ELSE timers + 1)]_vars

\* the second message of a burst: unfocused, counted, and silent because the
\* latch of the first is still set
C4_Witness ==
  /\ lastStep.op = "handleNewMessage"
  /\ ~isVisit(lastStep.arg)
  /\ hasFocusApi /\ ~focused
  /\ unread = 2
  /\ played /\ timers = 1
  /\ CallsOf("audio.play") = {}
  /\ CallsOf("incrementUnread") # {}

\* the step being taken is handleNewMessage handling a visit
HandlesVisit ==
  Ran("handleNewMessage")
    /\ \/ lastStep'.arg.message_type = "visit"
       \/ lastStep'.arg.hasPayload /\ lastStep'.arg.payloadType = "visit"

\* C5: handling a visit message (payload.type or message_type is 'visit')
\* calls nothing, addEventToConversation included, and changes neither the
\* unread count nor the sound latch nor anything else of the component or
\* the store.
C5_VisitIsDropped ==
  [][HandlesVisit =>
       /\ calls' = <<>>
       /\ UNCHANGED <<unread, played, timers, config, tasks, activeView,
                      isReady, parentClass, lastSetClass, observers, pc,
                      socket, life, listener, container>>]_vars

\* a visit handled when there was an unread count and a set latch to change
C5_Witness ==
  /\ lastStep.op = "handleNewMessage"
  /\ lastStep.arg.message_type = "visit"
  /\ ~lastStep.arg.hasPayload
  /\ calls = <<>>
  /\ unread = 1
  /\ played

\* the class string of an active view
ClassOf(view) ==
  CASE view = "side" -> "bp-widget-web bp-widget-side"
    [] view = "widget" -> "bp-widget-web bp-widget-widget"

\* C6: with a host frame present, a render pass of the ready component posts
\* a setClass message exactly when the class of the current active view
\* differs from the value of the last setClass message posted, and then
\* posts that class once; a render pass with an unchanged class posts
\* nothing.
C6_SetClassOnChangeOnly ==
  [][(Ran("render") /\ hasParent /\ isReady) =>
       IF ClassOf(activeView) # lastSetClass
         THEN /\ Len(calls') = 1
              /\ calls'[1].fn = "postMessage"
              /\ calls'[1].arg.type = "setClass"
              /\ calls'[1].arg.value = ClassOf(activeView)
              /\ lastSetClass' = ClassOf(activeView)
         ELSE /\ calls' = <<>>
              /\ lastSetClass' = lastSetClass]_vars

\* a repeated render pass that posted nothing, after the class of the side
\* view had been posted
C6_Witness ==
  /\ lastStep.op = "render"
  /\ hasParent /\ isReady
  /\ calls = <<>>
  /\ activeView = "side"
  /\ lastSetClass = "bp-widget-web bp-widget-side"


\* the configuration partial the last step resolved: the config field of the
\* query string's options for initialize(), the payload for 'configure'
PartialOfStep ==
  IF lastStep.op = "initialize"
    THEN (IF query.kind = "config" THEN query.config ELSE EmptyObj)
    ELSE lastStep.arg.payload

\* C7: whenever initialize() or a 'configure' message calls updateConfig, the
\* configuration handed over, which becomes the store's configuration, has
\* the keys of DEFAULT_CONFIG and of the partial P and no other, P's value
\* for every key of P and the default for every other key, whatever the
\* configuration was before.
C7_DefaultsOverlaidByPartial ==
  \A i \in CallsOf("updateConfig") :
    /\ lastStep.op \in {"initialize", "handleIframeApi"}
    /\ CallsOf("updateConfig") = {i}
    /\ config = calls[i].arg
    /\ DOMAIN config = DOMAIN DEFAULT_CONFIG \cup DOMAIN PartialOfStep
    /\ \A k \in DOMAIN PartialOfStep : config[k] = PartialOfStep[k]
    /\ \A k \in DOMAIN DEFAULT_CONFIG \ DOMAIN PartialOfStep :
         config[k] = DEFAULT_CONFIG[k]

\* a 'configure' without the unknown key, handled when the configuration in
\* force had one: the key is gone and the userId is back to its default
C7_Witness ==
  /\ lastStep.op = "handleIframeApi"
  /\ lastStep.arg.action = "configure"
  /\ lastStep.arg.payload = [userId |-> "", overrides |-> "{}", locale |-> "fr"]
  /\ Get(userConfig, "extra") = "x1"
  /\ "extra" \notin DOMAIN config
  /\ config["locale"] = "fr"

\* the store actions, as opposed to the calls of the socket, the module
\* loader and the host frame
StoreActions ==
  {"updateConfig", "showChat", "hideChat", "sendMessage", "sendData",
   "initializeChat", "addEventToConversation", "incrementUnread",
   "resetUnread", "setLoadingCompleted"}

StoreCalls == { i \in DOMAIN calls : calls[i].fn \in StoreActions }

\* C8: a run of handleIframeApi calls the one store action of the protocol
\* table, first and only: updateConfig for 'configure', showChat, hideChat
\* or sendMessage(text) for an 'event' of type show, hide or message,
\* sendData({type, payload}) with the type and the payload as received for
\* an 'event' of any other type, and nothing for any other action.
C8_ProtocolTable ==
  lastStep.op = "handleIframeApi" =>
    LET m == lastStep.arg
        type == Get(m.payload, "type")
    IN /\ StoreCalls = (IF m.action \in {"configure", "event"} THEN {1} ELSE {})
       /\ m.action = "configure" => calls[1].fn = "updateConfig"
       /\ (m.action = "event" /\ type = "show") => calls = <<Call("showChat", NoArg)>>
       /\ (m.action = "event" /\ type = "hide") => calls = <<Call("hideChat", NoArg)>>
       /\ (m.action = "event" /\ type = "message") =>
            /\ Len(calls) = 1
            /\ calls[1].fn = "sendMessage"
            /\ calls[1].arg = Val(m.payload.text)
       /\ (m.action = "event" /\ type \notin {"show", "hide", "message"}) =>
            /\ Len(calls) = 1
            /\ calls[1].fn = "sendData"
            /\ calls[1].arg.type = type
            /\ calls[1].arg.payload = m.payload
       /\ m.action \notin {"configure", "event"} => calls = <<>>

\* an 'event' of a type of its own forwarded to sendData
C8_Witness ==
  /\ lastStep.op = "handleIframeApi"
  /\ lastStep.arg.action = "event"
  /\ Get(lastStep.arg.payload, "type") = "custom"
  /\ CallsOf("sendData") = {1}

\* C9: loading is completed and the watchers are installed only once
\* waitForUserId and then initializeChat have resolved; while initialize()
\* is suspended, and for ever once it has thrown, no watcher is installed
\* and the component is not ready, and nothing but the resolution or the
\* rejection of the awaited promise takes initialize() out of a suspension
\* (no timeout, no retry).
C9_ReadyOnlyAfterBothAwaits ==
  /\ [](/\ (isReady \/ observers # {}) =>
             /\ pc = "done"
             /\ 0 < Pos("waitForUserId.resolved")
             /\ Pos("waitForUserId.resolved") < Pos("initializeChat.resolved")
             /\ Pos("initializeChat.resolved") < Pos("observe")
        /\ pc # "done" => (~isReady /\ observers = {}))
  /\ [][/\ (pc \in {"waitForUserId", "initializeChat"} /\ pc' # pc) =>
             /\ lastStep'.op = "initialize"
             /\ lastStep'.arg \in {Val(pc), Val("rejected")}
        /\ pc = "threw" => pc' = "threw"
        /\ pc = "done" => pc' = "done"
        /\ pc = "waitForUserId" => pc' # "done"]_vars

\* a render pass of the component, not ready, while its bootstrap is
\* suspended at initializeChat
C9_Witness ==
  /\ pc = "initializeChat"
  /\ lastStep.op = "render"
  /\ Pos("waitForUserId.resolved") > 0
  /\ ~isReady
  /\ observers = {}

\* C10: a change of dimensions.container posts one {type: 'setWidth', value}
\* message with the new value when the watcher is installed, the value is
\* truthy and a host frame is present, and posts nothing otherwise; no other
\* step posts a setWidth message.
C10_SetWidthPerTruthyChange ==
  /\ lastStep.op = "setContainer" =>
       IF "container" \in observers /\ lastStep.arg.val # "0" /\ hasParent
         THEN /\ Len(calls) = 1
              /\ calls[1].fn = "postMessage"
              /\ calls[1].arg.type = "setWidth"
              /\ calls[1].arg.value = lastStep.arg.val
              /\ calls[1].arg.value = container
         ELSE calls = <<>>
  /\ lastStep.op # "setContainer" =>
       \A i \in CallsOf("postMessage") : calls[i].arg.type # "setWidth"

\* the installed watcher has posted the width 480
C10_Witness ==
  /\ lastStep.op = "setContainer"
  /\ container = "480"
  /\ CallsOf("postMessage") = {1}

\* C11: the callbacks of the userId watcher never interleave: when a change
\* of config.userId starts a callback (its changeUserId is requested), every
\* earlier callback has finished both its changeUserId and its
\* initializeChat, so the new callback is the only one in flight.
C11_CallbacksNeverInterleave ==
  (lastStep.op = "handleIframeApi" /\ CallsOf("changeUserId") # {})
    => tasks = <<"changeUserId">>

\* the call by which a userId watcher callback re-runs initializeChat
WatcherInitializeChat == Call("initializeChat", Val("userIdWatcher"))

\* C12: the userId watcher acts sequentially: the step in which it fires
\* requests changeUserId(newValue) and does not call initializeChat; a
\* callback always starts suspended at its changeUserId; and initializeChat is
\* re-run by the watcher only in the step in which the changeUserId of a
\* callback in flight resolves, once for that callback.
C12_InitializeChatAfterChangeUserId ==
  [][/\ lastStep'.op = "handleIframeApi" =>
          \A i \in DOMAIN calls' : calls'[i].fn # "initializeChat"
     /\ Len(tasks') > Len(tasks) =>
          /\ tasks' = tasks \o <<"changeUserId">>
          /\ lastStep'.op = "handleIframeApi"
          /\ \E i \in DOMAIN calls' :
               calls'[i] = Call("changeUserId", Val(Get(config', "userId")))
     /\ (\E i \in DOMAIN calls' : calls'[i] = WatcherInitializeChat) =>
          /\ lastStep'.op = "userIdWatcher"
          /\ lastStep'.arg.task \in DOMAIN tasks
          /\ tasks[lastStep'.arg.task] = "changeUserId"
          /\ tasks' = [tasks EXCEPT ![lastStep'.arg.task] = "initializeChat"]
          /\ calls' = <<WatcherInitializeChat>>]_vars

\* the changeUserId of a callback in flight has resolved and the callback has
\* re-run initializeChat
C12_Witness ==
  /\ lastStep.op = "userIdWatcher"
  /\ calls = <<WatcherInitializeChat>>
  /\ tasks = <<"initializeChat">>
  /\ Get(config, "userId") = "u2"

\* C13: an unmount does not stop the bootstrap: while the component is
\* unmounted and initialize() is suspended, the resolution of the awaited
\* promise can still be handled; its continuation then runs as for a mounted
\* component (initializeChat is called after waitForUserId; the watchers are
\* installed and setLoadingCompleted is called after initializeChat), and no
\* step ever removes a watcher or takes the readiness back.
C13_ContinuationRunsAfterUnmount ==
  /\ []((life = "unmounted" /\ steps < MaxSteps) =>
          /\ pc = "waitForUserId" => ENABLED resolveWaitForUserId
          /\ pc = "initializeChat" => ENABLED resolveInitializeChat)
  /\ [][(life = "unmounted" /\ Ran("initialize")) =>
          /\ life' = "unmounted"
          /\ lastStep'.arg = Val("waitForUserId") =>
               /\ pc' = "initializeChat"
               /\ calls' = <<Call("initializeChat", Val("initialize"))>>
          /\ lastStep'.arg = Val("initializeChat") =>
               /\ pc' = "done"
               /\ observers' = setupObserver
               /\ isReady'
               /\ calls' = finalCalls]_vars
  /\ [][observers \subseteq observers' /\ (isReady => isReady')]_vars

\* the component was unmounted while initialize() was suspended, and the
\* continuation has installed the watchers and completed the loading
C13_Witness ==
  /\ life = "unmounted"
  /\ lastStep = Step("initialize", Val("initializeChat"))
  /\ pc = "done"
  /\ observers = setupObserver
  /\ isReady
  /\ CallsOf("setLoadingCompleted") # {}

\* C14: handleIframeApi is registered exactly while the component is mounted:
\* it is not registered before componentDidMount, it is after it, and it is
\* not after componentWillUnmount; so a host message is handled, and triggers
\* its store action, only between mount and unmount, and no message can be
\* handled once the component is unmounted.
C14_ListenerSymmetric ==
  /\ listener <=> life = "mounted"
  /\ lastStep.op = "handleIframeApi" => life = "mounted"
  /\ life # "mounted" => \A m \in IframeMessages : ~ENABLED handleIframeApi(m)

\* a 'configure' message was handled while the component was mounted, and the
\* component has been unmounted since
C14_Witness ==
  /\ life = "unmounted"
  /\ ~listener
  /\ config # userConfig
  /\ lastStep.op = "componentWillUnmount"

\* C15: with an options payload that does not parse, initialize() ends at
\* extractConfig: the mount step makes the socket calls only (the socket, its
\* three hooks, setup()) and leaves the configuration as it was; no step
\* ever loads an override, requests changeUserId, installs a watcher or calls
\* setLoadingCompleted; updateConfig is called by 'configure' messages only;
\* the hooks and setup() stay in effect.
C15_MalformedOptionsThrow ==
  query.kind = "malformed" =>
    /\ userConfig = EmptyObj
    /\ observers = {}
    /\ ~isReady
    /\ tasks = <<>>
    /\ life # "constructed" =>
         /\ pc = "threw"
         /\ bootLog = Names(socketCalls)
         /\ socket.onMessage /\ socket.onTyping /\ socket.onUserIdChanged
         /\ socket.setup
    /\ lastStep.op = "initialize" => calls = socketCalls /\ config = EmptyObj
    /\ \A fn \in {"loadModuleView", "changeUserId", "waitForUserId", "observe",
                  "setLoadingCompleted", "initializeChat"} : CallsOf(fn) = {}
    /\ CallsOf("updateConfig") # {} => lastStep.op = "handleIframeApi"

\* after the parse error the socket still delivers a message to
\* handleNewMessage, which adds it to the conversation
C15_Witness ==
  /\ query.kind = "malformed"
  /\ pc = "threw"
  /\ lastStep.op = "handleNewMessage"
  /\ CallsOf("addEventToConversation") # {}

\* C16: the sound latch and its reset timer stay in step: `played` is true
\* exactly when one timeout of playSound is pending, never more than one
\* timeout is pending, and, the browser running every pending timeout, a set
\* latch is always eventually reset, after which a sound can play again.
C16_LatchInStepWithTimer ==
  /\ [](played <=> timers = 1)
  /\ [](timers \in {0, 1})
  /\ [](~played => playsSound)
  /\ (played ~> ~played)

\* a second sound has played: the timeout had reset the latch that the first
\* message set, and this message has set it again with a new timeout
C16_Witness ==
  /\ lastStep.op = "handleNewMessage"
  /\ CallsOf("audio.play") # {}
  /\ unread = 2
  /\ played
  /\ timers = 1

\* C17: handling one message that is not a visit never both increments and
\* resets the unread count: incrementUnread is called, once, exactly when the
\* document lacks focus or the active view is not 'side'; resetUnread is
\* called exactly when the document has focus and the active view is 'side';
\* the handler changes neither the focus nor the active view in between, so
\* the two never come together.
C17_IncrementOrResetNeverBoth ==
  [][HandlesMessage =>
       LET incremented == CallsOfNext("incrementUnread") # {}
           reset == CallsOfNext("resetUnread") # {}
       IN /\ incremented <=> ((hasFocusApi /\ ~focused) \/ activeView # "side")
          /\ reset <=> (hasFocusApi /\ focused /\ activeView = "side")
          /\ ~(incremented /\ reset)
          /\ Cardinality(CallsOfNext("incrementUnread")) <= 1
          /\ Cardinality(CallsOfNext("resetUnread")) <= 1
          /\ unread' = (IF incremented THEN unread + 1
                        ELSE IF reset THEN 0 ELSE unread)
          /\ focused' = focused
          /\ activeView' = activeView]_vars

\* a message handled with the focus on the open conversation: the count is
\* reset and not incremented
C17_Witness ==
  /\ lastStep.op = "handleNewMessage"
  /\ focused
  /\ activeView = "side"
  /\ CallsOf("resetUnread") # {}
  /\ CallsOf("incrementUnread") = {}
  /\ unread = 0

\* the step being taken posts a setClass message to the host frame
PostsSetClass ==
  \E i \in DOMAIN calls' :
    calls'[i].fn = "postMessage" /\ calls'[i].arg.type = "setClass"

\* C18: while isReady is false no setClass message has been sent and no class
\* is remembered, and a render pass then sends nothing and remembers
\* nothing; a setClass message is only ever sent by a render pass of the ready
\* component; and the first render pass of the ready component (no class
\* remembered yet) with a host frame present sends one setClass message with
\* the class of the current active view and remembers it.
C18_NoSetClassBeforeReady ==
  /\ [](~isReady => parentClass = Undefined /\ lastSetClass = Undefined)
  /\ [][(Ran("render") /\ ~isReady) =>
          calls' = <<>> /\ parentClass' = parentClass]_vars
  /\ [][(steps' # steps /\ PostsSetClass) => isReady /\ lastStep'.op = "render"]_vars
  /\ [][(Ran("render") /\ isReady /\ parentClass = Undefined /\ hasParent) =>
          /\ calls' = <<Call("postMessage",
                             [type |-> "setClass", value |-> ClassOf(activeView)])>>
          /\ parentClass' = ClassOf(activeView)
          /\ lastSetClass' = ClassOf(activeView)]_vars

\* the first render pass of the ready component has sent the class of the
\* launcher view to the host frame
C18_Witness ==
  /\ lastStep = Step("render", [isReady |-> TRUE])
  /\ steps = 4
  /\ hasParent
  /\ activeView = "widget"
  /\ calls = <<Call("postMessage",
                    [type |-> "setClass", value |-> "bp-widget-web bp-widget-widget"])>>
  /\ parentClass = "bp-widget-web bp-widget-widget"

=============================================================================
